---- MODULE Spec2Model ----
(***************************************************************************)
(* A model of raug/checkpoints.py: save_model writes a snapshot of a       *)
(* model, its optimizer, the epoch and the loss under                      *)
(* <folder>/last-checkpoint (always) and <folder>/best-checkpoint (when    *)
(* is_best), and load_model restores a model (and optionally an optimizer, *)
(* the loss and the epoch) from such a snapshot.                           *)
(*                                                                         *)
(* The file system is the only state that outlives a call.  The record     *)
(* `call` observes the most recent call: its flags, the error it raised,   *)
(* its local info_to_save (save_model) or its arguments, the objects it    *)
(* mutated and its return value (load_model).                              *)
(***************************************************************************)
EXTENDS Integers, Sequences, FiniteSets, TLC

VARIABLES
    fs,         \* the destination folder: the two subfolders and the two files
    call,       \* the most recent call: its flags, the error it raised, its result
    lastSaved,  \* history: the arguments of the most recent save_model call that returned
    bestSaved,  \* history: the same, among the calls with is_best
    injected,   \* whether the environment has injected an I/O fault into a call
    procs       \* the concurrent callers of save_model (SpecConc only)

vars == <<fs, call, lastSaved, bestSaved, injected, procs>>

(***************************************************************************)
(* Bounds and value domains.                                               *)
(***************************************************************************)
MaxEpoch == 1

Epochs == 0..MaxEpoch

\* the names of a model's parameters, as in a state_dict
Keys == {"weight"}

\* parameter values (tensors), optimizer states and losses are opaque to the module
Tensors == {"t0", "t1"}

Optims == {"o0", "o1"}

Losses == {"l0", "l1"}

\* A model object: a plain module, or a multi-device wrapper (DataParallel)
\* around a plain module whose parameters are params.
Models == [wrapped : BOOLEAN, params : [Keys -> Tensors]]

None == [is |-> "None"]

Some(v) == [is |-> "Some", v |-> v]

(***************************************************************************)
(* The framework's objects, as save_model and load_model use them.         *)
(***************************************************************************)
\* model.module: only a wrapper has the attribute
HasModule(m) == m.wrapped

Module(m) == [wrapped |-> FALSE, params |-> m.params]

\* the name under which a model's state_dict lists its parameter k: a wrapper
\* lists the parameters of the inner model under the prefix "module."
StateDictKey(m, k) == IF m.wrapped THEN "module." \o k ELSE k

\* model.state_dict()
StateDict(m) ==
    [n \in {StateDictKey(m, k) : k \in Keys} |->
        m.params[CHOOSE k \in Keys : StateDictKey(m, k) = n]]

\* the model_state_dict entry of info_to_save: line 50
ModelStateDictIgnoringFlag(model, multi_gpu) == StateDict(model)

ModelStateDict(model, multi_gpu) ==
    IF multi_gpu THEN StateDict(Module(model)) ELSE StateDict(model)

\* info_to_save: lines 48-53
InfoToSave(model, epoch, opt_fn, loss_fn, multi_gpu) ==
    [epoch |-> epoch,
     model_state_dict |-> ModelStateDict(model, multi_gpu),
     optimizer_state_dict |-> opt_fn,
     loss |-> loss_fn]

(***************************************************************************)
(* The file system.                                                        *)
(***************************************************************************)
NoFile == [kind |-> "absent"]

\* what a write that failed after opening (truncating) the file leaves behind
PartialFile == [kind |-> "partial"]

SnapshotFile(info) == [kind |-> "snapshot", info |-> info]

EmptyFolder(l, b) ==
    [last_check_path |-> l, best_check_path |-> b,
     last_file |-> NoFile, best_file |-> NoFile]

\* os.mkdir(path): raises FileExistsError on an existing folder; `fail` is an
\* I/O error of the environment (permission, missing parent, disk)
OsMkdir(exists, fail) ==
    IF exists THEN [exists |-> TRUE, err |-> "FileExistsError"]
    ELSE IF fail THEN [exists |-> FALSE, err |-> "OSError"]
    ELSE [exists |-> TRUE, err |-> "none"]

\* if not os.path.exists(p): os.mkdir(p)    (lines 32-38, 40-46)
EnsureFolderNoCheck(exists, fail) == OsMkdir(exists, fail)

EnsureFolder(exists, fail) ==
    IF ~exists THEN OsMkdir(exists, fail) ELSE [exists |-> TRUE, err |-> "none"]

\* torch.save(info, path): fault "open" fails before the file is touched,
\* fault "write" fails after the file was opened for writing (and truncated)
TorchSave(file, info, fault) ==
    IF fault = "open" THEN [file |-> file, err |-> "OSError"]
    ELSE IF fault = "write" THEN [file |-> PartialFile, err |-> "OSError"]
    ELSE [file |-> SnapshotFile(info), err |-> "none"]

\* the environment's I/O faults a call can meet, by the step that meets them
Faults == {"none", "mkdir_last", "mkdir_best",
           "save_last_open", "save_last_write", "save_best_open", "save_best_write"}

WriteFault(fault, file) ==
    IF fault = "save_" \o file \o "_open" THEN "open"
    ELSE IF fault = "save_" \o file \o "_write" THEN "write"
    ELSE "none"

SaveArgs ==
    [model : Models, epoch : Epochs, opt_fn : Optims, loss_fn : Losses,
     is_best : BOOLEAN, multi_gpu : BOOLEAN]

(***************************************************************************)
(* save_model, lines 17-58, as a function of the folder, the arguments and *)
(* the fault the environment injects.  A run r of the call is the folder   *)
(* r.fs as the call has left it so far, the error r.err it raised ("none": *)
(* none so far) and its local r.info (None until line 48 has built it).    *)
(* A step that raises ends the call; nothing is caught, nothing is undone. *)
(***************************************************************************)
SaveStart(f) == [fs |-> f, err |-> "none", info |-> None]

\* lines 32-38
SaveLastFolder(r, fault) ==
    LET d == EnsureFolder(r.fs.last_check_path, fault = "mkdir_last")
    IN  [r EXCEPT !.fs.last_check_path = d.exists, !.err = d.err]

\* lines 40-46
SaveBestFolder(r, fault) ==
    LET d == EnsureFolder(r.fs.best_check_path, fault = "mkdir_best")
    IN  [r EXCEPT !.fs.best_check_path = d.exists, !.err = d.err]

\* lines 48-53: model.module raises AttributeError on a model that is no wrapper
SaveBuildInfo(r, a) ==
    IF a.multi_gpu /\ ~HasModule(a.model)
    THEN [r EXCEPT !.err = "AttributeError"]
    ELSE [r EXCEPT !.info =
             Some(InfoToSave(a.model, a.epoch, a.opt_fn, a.loss_fn, a.multi_gpu))]

\* line 55
SaveLastFile(r, fault) ==
    LET w == TorchSave(r.fs.last_file, r.info.v, WriteFault(fault, "last"))
    IN  [r EXCEPT !.fs.last_file = w.file, !.err = w.err]

\* lines 57-58
SaveBestFileAlways(r, is_best, fault) ==
    LET w == TorchSave(r.fs.best_file, r.info.v, WriteFault(fault, "best"))
    IN  [r EXCEPT !.fs.best_file = w.file, !.err = w.err]

SaveBestFileInverted(r, is_best, fault) ==
    IF ~is_best
    THEN LET w == TorchSave(r.fs.best_file, r.info.v, WriteFault(fault, "best"))
         IN  [r EXCEPT !.fs.best_file = w.file, !.err = w.err]
    ELSE r

SaveBestFile(r, is_best, fault) ==
    IF is_best
    THEN LET w == TorchSave(r.fs.best_file, r.info.v, WriteFault(fault, "best"))
         IN  [r EXCEPT !.fs.best_file = w.file, !.err = w.err]
    ELSE r

\* the rest of the call from a step on: a call that has raised takes no step
SaveFromBestFile(r, a, fault) ==
    IF r.err = "none" THEN SaveBestFile(r, a.is_best, fault) ELSE r

SaveFromLastFileBestFirst(r, a, fault) ==
    IF r.err = "none"
    THEN LET b == SaveBestFile(r, a.is_best, fault)
         IN  IF b.err = "none" THEN SaveLastFile(b, fault) ELSE b
    ELSE r

SaveFromLastFile(r, a, fault) ==
    IF r.err = "none" THEN SaveFromBestFile(SaveLastFile(r, fault), a, fault) ELSE r

SaveFromBuildInfo(r, a, fault) ==
    IF r.err = "none" THEN SaveFromLastFile(SaveBuildInfo(r, a), a, fault) ELSE r

SaveFromBestFolder(r, a, fault) ==
    IF r.err = "none" THEN SaveFromBuildInfo(SaveBestFolder(r, fault), a, fault) ELSE r

SaveModelResult(f, a, fault) ==
    SaveFromBestFolder(SaveLastFolder(SaveStart(f), fault), a, fault)

\* the observation of a save_model call that ran r; the fault is recorded when
\* the call met it: a fault at a step the call does not take (mkdir of an
\* existing folder, the best write of a call without is_best) never happens
SaveCall(a, fault, r) ==
    [op |-> "save_model", is_best |-> a.is_best, multi_gpu |-> a.multi_gpu,
     fault |-> IF r.err = "OSError" THEN fault ELSE "none",
     err |-> r.err, info |-> r.info]

NoCall == [op |-> "none"]

NoProcs == [op |-> "none"]

\* a sequential call of save_model, under the fault the environment injects
SaveModelUnder(a, fault) ==
    LET r == SaveModelResult(fs, a, fault)
    IN  /\ fs' = r.fs
        /\ call' = SaveCall(a, fault, r)
        /\ lastSaved' = IF r.err = "none" THEN Some(a) ELSE lastSaved
        /\ bestSaved' = IF r.err = "none" /\ a.is_best THEN Some(a) ELSE bestSaved
        /\ injected' = (injected \/ fault # "none")
        /\ UNCHANGED procs

\* save_model on a file system that raises no I/O error
SaveModel == \E a \in SaveArgs : SaveModelUnder(a, "none")

Init ==
    /\ fs \in {EmptyFolder(l, b) : l, b \in BOOLEAN}
    /\ call = NoCall
    /\ lastSaved = None
    /\ bestSaved = None
    /\ injected = FALSE
    /\ procs = NoProcs

\* Spec: any sequence of save_model calls on one destination folder, on a file
\* system that raises no I/O error
Next == SaveModel

Spec == Init /\ [][Next]_vars

(***************************************************************************)
(* SpecFault: the environment makes one I/O operation fail.  A first call  *)
(* may have filled the folder; the call under the fault follows (or is the *)
(* first); the caller then retries a call that raised an I/O error.        *)
(***************************************************************************)
FirstSave == call.op = "none" /\ SaveModel

FaultySave ==
    /\ ~injected
    /\ \E a \in SaveArgs, fault \in Faults \ {"none"} : SaveModelUnder(a, fault)

\* the caller repeats the call that raised: the same flags and, when the call
\* had built its info_to_save, the same model, epoch, optimizer and loss
RetrySave ==
    /\ call.op = "save_model"
    /\ call.err = "OSError"
    /\ \E a \in SaveArgs :
        /\ a.is_best = call.is_best
        /\ a.multi_gpu = call.multi_gpu
        /\ call.info # None =>
             /\ HasModule(a.model) \/ ~a.multi_gpu
             /\ InfoToSave(a.model, a.epoch, a.opt_fn, a.loss_fn, a.multi_gpu) = call.info.v
        /\ SaveModelUnder(a, "none")

NextFault == FirstSave \/ FaultySave \/ RetrySave

SpecFault == Init /\ [][NextFault]_vars

(***************************************************************************)
(* load_model, lines 102-123.                                              *)
(***************************************************************************)
LastPath == "last-checkpoint/last-checkpoint.pth"

BestPath == "best-checkpoint/best-checkpoint.pth"

\* the paths a caller passes: the two files save_model writes, and a path under
\* which there never is a file
Paths == {LastPath, BestPath, "missing.pth"}

FileAt(f, path) ==
    IF path = LastPath THEN f.last_file
    ELSE IF path = BestPath THEN f.best_file
    ELSE NoFile

\* os.path.exists(checkpoint_path)
PathExists(f, path) == FileAt(f, path) # NoFile

\* the test of line 111
LoadPathMissingNever(f, path) == FALSE

LoadPathMissing(f, path) == ~PathExists(f, path)

\* torch.load(path): the object a complete file holds; it raises on a missing
\* file and on a file that a failed write left partial
TorchLoad(file) ==
    IF file.kind = "snapshot" THEN [ckpt |-> Some(file.info), err |-> "none"]
    ELSE IF file.kind = "absent" THEN [ckpt |-> None, err |-> "FileNotFoundError"]
    ELSE [ckpt |-> None, err |-> "UnpicklingError"]

\* model.load_state_dict(state_dict), strict: the parameters the state_dict names
\* are copied in place, then missing or unexpected names raise RuntimeError
LoadStateDict(model, state_dict) ==
    [model |-> [model EXCEPT !.params =
                   [k \in Keys |->
                       IF StateDictKey(model, k) \in DOMAIN state_dict
                       THEN state_dict[StateDictKey(model, k)]
                       ELSE model.params[k]]],
     err |-> IF DOMAIN state_dict = {StateDictKey(model, k) : k \in Keys}
             THEN "none" ELSE "RuntimeError"]

\* line 115
LoadModelStateDictSkipped(model, ckpt) == [model |-> model, err |-> "none"]

LoadModelStateDict(model, ckpt) == LoadStateDict(model, ckpt.model_state_dict)

\* the test of line 117
LoadWithOptimizerOnly(opt_fn, loss_fn) == opt_fn # None

LoadWithOptimizer(opt_fn, loss_fn) == opt_fn # None /\ loss_fn # None

NoReturn == [kind |-> "raised"]

\* lines 118-121: the optimizer's state is replaced by the snapshot's (in place),
\* epoch and loss_fn are rebound to the snapshot's, the 4-tuple is returned
LoadTupleKeepingArgs(model, ckpt, loss_fn, epoch) ==
    [optim |-> Some(ckpt.optimizer_state_dict),
     ret |-> [kind |-> "tuple", model |-> model,
              opt_fn |-> Some(ckpt.optimizer_state_dict),
              loss_fn |-> IF loss_fn # None THEN loss_fn.v ELSE ckpt.loss,
              epoch |-> IF epoch # None THEN epoch.v ELSE ckpt.epoch]]

LoadTuple(model, ckpt, loss_fn, epoch) ==
    [optim |-> Some(ckpt.optimizer_state_dict),
     ret |-> [kind |-> "tuple", model |-> model,
              opt_fn |-> Some(ckpt.optimizer_state_dict),
              loss_fn |-> ckpt.loss,
              epoch |-> ckpt.epoch]]

LoadArgs ==
    [checkpoint_path : Paths, model : Models,
     opt_fn : {None} \cup {Some(o) : o \in Optims},
     loss_fn : {None} \cup {Some(l) : l \in Losses},
     epoch : {None} \cup {Some(e) : e \in Epochs}]

\* the outcome of a call: the error raised ("none": it returned), whether
\* torch.load was called, the model and the optimizer as the call leaves them,
\* and the value returned
LoadModelResult(f, a) ==
    IF LoadPathMissing(f, a.checkpoint_path)
    THEN [err |-> "Exception", loaded |-> FALSE,
          model |-> a.model, optim |-> a.opt_fn, ret |-> NoReturn]
    ELSE LET t == TorchLoad(FileAt(f, a.checkpoint_path))
         IN  IF t.err # "none"
             THEN [err |-> t.err, loaded |-> TRUE,
                   model |-> a.model, optim |-> a.opt_fn, ret |-> NoReturn]
             ELSE LET m == LoadModelStateDict(a.model, t.ckpt.v)
                  IN  IF m.err # "none"
                      THEN [err |-> m.err, loaded |-> TRUE,
                            model |-> m.model, optim |-> a.opt_fn, ret |-> NoReturn]
                      ELSE IF LoadWithOptimizer(a.opt_fn, a.loss_fn)
                      THEN LET r == LoadTuple(m.model, t.ckpt.v, a.loss_fn, a.epoch)
                           IN  [err |-> "none", loaded |-> TRUE,
                                model |-> m.model, optim |-> r.optim, ret |-> r.ret]
                      ELSE [err |-> "none", loaded |-> TRUE,
                            model |-> m.model, optim |-> a.opt_fn,
                            ret |-> [kind |-> "model", model |-> m.model]]

\* a call of load_model: the file system is only read
LoadModel ==
    \E a \in LoadArgs :
        LET r == LoadModelResult(fs, a)
        IN  /\ call' = [op |-> "load_model", args |-> a, err |-> r.err,
                        loaded |-> r.loaded, model |-> r.model, optim |-> r.optim,
                        ret |-> r.ret]
            /\ UNCHANGED <<fs, lastSaved, bestSaved, injected, procs>>

(***************************************************************************)
(* SpecLoad: one save_model call into the folder (under any fault of the   *)
(* environment, or none), then one load_model call; or a load_model call   *)
(* on the folder as it was found.                                          *)
(***************************************************************************)
SaveBeforeLoad ==
    /\ call.op = "none"
    /\ \E a \in SaveArgs, fault \in Faults : SaveModelUnder(a, fault)

LoadOnce == call.op # "load_model" /\ LoadModel

NextLoad == SaveBeforeLoad \/ LoadOnce

SpecLoad == Init /\ [][NextLoad]_vars

(***************************************************************************)
(* SpecConc: two callers run save_model on the same destination folder at  *)
(* the same time.  Each caller makes one call and takes the steps of lines *)
(* 32-58 one by one; os.path.exists, os.mkdir and the opening and the      *)
(* completion of a torch.save are the steps that touch the file system.    *)
(***************************************************************************)
Procs == {"p1", "p2"}

\* the calls of the concurrent callers: plain models, saved without multi_gpu
ConcArgs ==
    {a \in SaveArgs :
        /\ ~a.model.wrapped /\ ~a.multi_gpu
        /\ a.model.params = [k \in Keys |-> "t0"]
        /\ a.opt_fn = "o0" /\ a.loss_fn = "l0"}

Idle == [pc |-> "idle", err |-> "none", info |-> None, shared |-> FALSE]

InitConc ==
    /\ fs \in {EmptyFolder(l, b) : l, b \in BOOLEAN}
    /\ call = NoCall
    /\ lastSaved = None
    /\ bestSaved = None
    /\ injected = FALSE
    /\ procs = [p \in Procs |-> Idle]

SeqUnchanged == UNCHANGED <<call, lastSaved, bestSaved, injected>>

\* the caller enters save_model
ConcCall(p) ==
    /\ procs[p].pc = "idle"
    /\ \E a \in ConcArgs :
          procs' = [procs EXCEPT ![p] =
                       [pc |-> "exists_last", a |-> a, err |-> "none",
                        info |-> None, shared |-> FALSE]]
    /\ UNCHANGED fs /\ SeqUnchanged

\* line 32: os.path.exists(last_check_path)
ConcExistsLast(p) ==
    /\ procs[p].pc = "exists_last"
    /\ procs' = [procs EXCEPT ![p].pc =
                    IF fs.last_check_path THEN "exists_best" ELSE "mkdir_last"]
    /\ UNCHANGED fs /\ SeqUnchanged

\* line 35: os.mkdir(last_check_path)
ConcMkdirLast(p) ==
    /\ procs[p].pc = "mkdir_last"
    /\ LET d == OsMkdir(fs.last_check_path, FALSE)
       IN  /\ fs' = [fs EXCEPT !.last_check_path = d.exists]
           /\ procs' = [procs EXCEPT
                           ![p].pc = IF d.err = "none" THEN "exists_best" ELSE "raised",
                           ![p].err = d.err]
    /\ SeqUnchanged

\* line 40: os.path.exists(best_check_path)
ConcExistsBest(p) ==
    /\ procs[p].pc = "exists_best"
    /\ procs' = [procs EXCEPT ![p].pc =
                    IF fs.best_check_path THEN "build_info" ELSE "mkdir_best"]
    /\ UNCHANGED fs /\ SeqUnchanged

\* line 43: os.mkdir(best_check_path)
ConcMkdirBest(p) ==
    /\ procs[p].pc = "mkdir_best"
    /\ LET d == OsMkdir(fs.best_check_path, FALSE)
       IN  /\ fs' = [fs EXCEPT !.best_check_path = d.exists]
           /\ procs' = [procs EXCEPT
                           ![p].pc = IF d.err = "none" THEN "build_info" ELSE "raised",
                           ![p].err = d.err]
    /\ SeqUnchanged

\* lines 48-53
ConcBuildInfo(p) ==
    /\ procs[p].pc = "build_info"
    /\ LET r == SaveBuildInfo(SaveStart(fs), procs[p].a)
       IN  procs' = [procs EXCEPT
                        ![p].pc = IF r.err = "none" THEN "open_last" ELSE "raised",
                        ![p].err = r.err,
                        ![p].info = r.info]
    /\ UNCHANGED fs /\ SeqUnchanged

\* the callers that have the file open for writing: the file of step `writing`
Writers(writing) == {q \in Procs : procs[q].pc = writing}

\* torch.save opens the file for writing, which truncates it; writers that have
\* the same file open at the same time share it
ConcOpen(p, opening, writing, file) ==
    /\ procs[p].pc = opening
    /\ procs' = [q \in Procs |->
                    IF q = p
                    THEN [procs[p] EXCEPT !.pc = writing,
                                          !.shared = (Writers(writing) # {})]
                    ELSE IF q \in Writers(writing)
                    THEN [procs[q] EXCEPT !.shared = TRUE]
                    ELSE procs[q]]
    /\ fs' = [fs EXCEPT ![file] = PartialFile]
    /\ SeqUnchanged

\* torch.save completes: the file holds the caller's snapshot, unless another
\* writer had it open meanwhile, in which case it may hold a mix of the two
ConcWrite(p, writing, next, file) ==
    /\ procs[p].pc = writing
    /\ \E content \in
          IF procs[p].shared
          THEN {SnapshotFile(procs[p].info.v), PartialFile}
          ELSE {SnapshotFile(procs[p].info.v)} :
          fs' = [fs EXCEPT ![file] = content]
    /\ procs' = [procs EXCEPT ![p].pc = next, ![p].shared = FALSE]
    /\ SeqUnchanged

\* line 55
ConcOpenLast(p) == ConcOpen(p, "open_last", "write_last", "last_file")

\* line 57 follows the write of line 55
ConcWriteLast(p) ==
    ConcWrite(p, "write_last",
              IF procs[p].a.is_best THEN "open_best" ELSE "done", "last_file")

\* line 58
ConcOpenBest(p) == ConcOpen(p, "open_best", "write_best", "best_file")

ConcWriteBest(p) == ConcWrite(p, "write_best", "done", "best_file")

NextConc ==
    \E p \in Procs :
        \/ ConcCall(p)
        \/ ConcExistsLast(p)
        \/ ConcMkdirLast(p)
        \/ ConcExistsBest(p)
        \/ ConcMkdirBest(p)
        \/ ConcBuildInfo(p)
        \/ ConcOpenLast(p)
        \/ ConcWriteLast(p)
        \/ ConcOpenBest(p)
        \/ ConcWriteBest(p)

SpecConc == InitConc /\ [][NextConc]_vars

(***************************************************************************)
(* Properties of save_model.                                               *)
(***************************************************************************)
\* what a call with arguments a is to write: the four fields, the parameters
\* under the names of the model whose state_dict is taken
ExpectedKey(a, k) == IF a.model.wrapped /\ ~a.multi_gpu THEN "module." \o k ELSE k

ExpectedInfo(a) ==
    [epoch |-> a.epoch,
     model_state_dict |->
        [n \in {ExpectedKey(a, k) : k \in Keys} |->
            a.model.params[CHOOSE k \in Keys : ExpectedKey(a, k) = n]],
     optimizer_state_dict |-> a.opt_fn,
     loss |-> a.loss_fn]

ExpectedFile(s) == IF s = None THEN NoFile ELSE SnapshotFile(ExpectedInfo(s.v))

\* C1: after any sequence of save_model calls on a folder that held no
\* checkpoint file, the last file holds the snapshot of the most recent call that
\* returned and the best file that of the most recent returned call with
\* is_best; the best file does not exist when no call with is_best has returned.
C1_LastAndBestFiles ==
    /\ fs.last_file = ExpectedFile(lastSaved)
    /\ fs.best_file = ExpectedFile(bestSaved)

\* several calls have returned, the most recent one without is_best
C1_Witness ==
    /\ call.op = "save_model" /\ call.err = "none"
    /\ lastSaved # None /\ bestSaved # None
    /\ ExpectedInfo(lastSaved.v) # ExpectedInfo(bestSaved.v)
    /\ fs.best_file.kind = "snapshot" /\ fs.last_file # fs.best_file

\* C2: a call without is_best leaves the best file exactly as it was (absent, or
\* with its previous contents) while the best-checkpoint folder exists after it;
\* after a call with is_best that returned, the best file equals the last file.
C2_BestWriteGating ==
    [][call'.op = "save_model" =>
          /\ fs'.best_check_path
          /\ ~call'.is_best => fs'.best_file = fs.best_file
          /\ (call'.is_best /\ call'.err = "none") =>
                /\ fs'.best_file.kind = "snapshot"
                /\ fs'.best_file = fs'.last_file]_vars

\* a call without is_best has left in place a best file that an earlier call wrote
C2_Witness ==
    /\ call.op = "save_model" /\ call.err = "none" /\ ~call.is_best
    /\ fs.best_file.kind = "snapshot"
    /\ fs.best_file.info # call.info.v

\* C7: in a sequential run, whatever subfolders existed at the start, no call
\* raises FileExistsError (or any error but the AttributeError of multi_gpu on a
\* plain model, raised after the folders are made), so that two calls in a row
\* both get to their writes; both subfolders exist after the folder steps, and a
\* checkpoint file only ever exists inside an existing subfolder.
C7_IdempotentFolders ==
    /\ call.op = "save_model" =>
          /\ call.err # "FileExistsError"
          /\ call.err \in {"none", "AttributeError"}
          /\ call.err = "AttributeError" => call.multi_gpu
          /\ fs.last_check_path /\ fs.best_check_path
    /\ fs.last_file # NoFile => fs.last_check_path
    /\ fs.best_file # NoFile => fs.best_check_path

\* two calls have returned, one after the other, on the same folder: the first
\* with is_best, the second without
C7_Witness ==
    /\ call.op = "save_model" /\ call.err = "none"
    /\ bestSaved # None /\ lastSaved # bestSaved
    /\ fs.last_check_path /\ fs.best_check_path

\* C9: a call with multi_gpu on a wrapper writes the snapshot that a call without
\* multi_gpu on the wrapper's inner model writes: the same model_state_dict (names
\* and values) and the same epoch, optimizer state and loss.
C9_MultiGpuUnwrap ==
    (call.op = "save_model" /\ call.err = "none" /\ call.multi_gpu) =>
        LET a == lastSaved.v
            direct == [a EXCEPT !.model = [wrapped |-> FALSE, params |-> a.model.params],
                                !.multi_gpu = FALSE]
            written == SaveModelResult(EmptyFolder(TRUE, TRUE), direct, "none").fs.last_file
        IN  /\ a.model.wrapped
            /\ fs.last_file.kind = "snapshot"
            /\ fs.last_file.info.model_state_dict = written.info.model_state_dict
            /\ fs.last_file.info.epoch = a.epoch
            /\ fs.last_file.info.optimizer_state_dict = a.opt_fn
            /\ fs.last_file.info.loss = a.loss_fn
            /\ fs.last_file = written

\* a call with multi_gpu on a wrapper has returned
C9_Witness ==
    /\ call.op = "save_model" /\ call.err = "none" /\ call.multi_gpu
    /\ lastSaved.v.model.wrapped
    /\ DOMAIN fs.last_file.info.model_state_dict = Keys

\* C10 (the step of a call that raised an I/O error): the folder steps, the last
\* write and the best write happen in this order and nothing done before the
\* failing step is undone.  bestKept: whether a failed best write is taken to
\* leave the best file as it was, or may also leave the partial file of a write
\* that failed after opening it.
FailedSaveStep(bestKept) ==
    /\ call'.fault = "mkdir_last" => fs' = fs
    /\ call'.fault = "mkdir_best" => fs' = [fs EXCEPT !.last_check_path = TRUE]
    /\ call'.fault \in {"save_last_open", "save_last_write"} =>
          /\ fs'.last_check_path /\ fs'.best_check_path
          /\ fs'.best_file = fs.best_file
          /\ fs'.last_file \in {fs.last_file, PartialFile}
    /\ call'.fault \in {"save_best_open", "save_best_write"} =>
          /\ fs'.last_check_path /\ fs'.best_check_path
          /\ fs'.last_file = SnapshotFile(call'.info.v)
          /\ \/ fs'.best_file = fs.best_file
             \/ ~bestKept /\ fs'.best_file = PartialFile

\* no step removes a folder or a file
NothingUndone ==
    /\ fs.last_check_path => fs'.last_check_path
    /\ fs.best_check_path => fs'.best_check_path
    /\ fs.last_file # NoFile => fs'.last_file # NoFile
    /\ fs.best_file # NoFile => fs'.best_file # NoFile

\* the retry of a call whose last write failed returns, and writes the snapshot
RetryAfterFailedLastWrite ==
    (/\ call.op = "save_model"
     /\ call.fault \in {"save_last_open", "save_last_write"}) =>
        /\ call'.err = "none"
        /\ fs'.last_file = SnapshotFile(call.info.v)

NoRollback(bestKept) ==
    /\ NothingUndone
    /\ (call'.op = "save_model" /\ call'.err = "OSError") => FailedSaveStep(bestKept)
    /\ RetryAfterFailedLastWrite

\* C10 as stated: a failed best write leaves the best file with its previous
\* contents (or absent).
C10_AsStated == [][NoRollback(TRUE)]_vars

\* C10, amended: a failed best write leaves the best file with its previous
\* contents (or absent), or with the partial file of the write that failed.
C10_NoRollback == [][NoRollback(FALSE)]_vars

\* a best write failed after the last write: the last file holds the new
\* snapshot and the best file is what the failed write left
C10_Witness ==
    /\ call.op = "save_model" /\ call.err = "OSError"
    /\ call.fault = "save_best_write"
    /\ fs.last_file = SnapshotFile(call.info.v)
    /\ fs.best_file = PartialFile

(***************************************************************************)
(* Properties of load_model.                                               *)
(***************************************************************************)
\* the arguments of the save_model call that wrote the file at path, when that
\* call returned (in SpecLoad at most one call has written)
WrittenBy(path) ==
    IF path = LastPath THEN lastSaved
    ELSE IF path = BestPath THEN bestSaved
    ELSE None

\* C3: save_model of a model holding parameters P, then load_model of the file
\* written (the last file, or the best file of a call with is_best) into a model
\* whose state_dict names its parameters as the saved one did: the call returns
\* and leaves the model holding P, whatever it held before.
C3_RoundTrip ==
    (call.op = "load_model" /\ WrittenBy(call.args.checkpoint_path) # None) =>
        LET a == WrittenBy(call.args.checkpoint_path).v
        IN  call.args.model.wrapped = (a.model.wrapped /\ ~a.multi_gpu) =>
               /\ call.err = "none"
               /\ call.model.params = a.model.params
               /\ call.ret.model.params = a.model.params

\* the best file of a call with is_best was loaded, without optimizer, into a
\* model that held other parameters
C3_Witness ==
    /\ call.op = "load_model" /\ call.err = "none"
    /\ call.args.checkpoint_path = BestPath /\ bestSaved # None
    /\ call.args.opt_fn = None
    /\ call.args.model.params # bestSaved.v.model.params
    /\ call.model.params = bestSaved.v.model.params

\* C4: load_model on a path that does not exist raises the missing-checkpoint
\* error without calling torch.load; the model and the optimizer are as they
\* were and nothing is returned.
C4_MissingPath ==
    (call.op = "load_model" /\ FileAt(fs, call.args.checkpoint_path) = NoFile) =>
        /\ call.err = "Exception"
        /\ ~call.loaded
        /\ call.model = call.args.model
        /\ call.optim = call.args.opt_fn
        /\ call.ret = NoReturn

\* load_model was called, with an optimizer, on the best path of a folder whose
\* save_model call was without is_best
C4_Witness ==
    /\ call.op = "load_model" /\ call.err = "Exception"
    /\ call.args.checkpoint_path = BestPath
    /\ lastSaved # None /\ fs.best_file = NoFile
    /\ call.args.opt_fn # None

\* C5: load_model with optimizer and loss returns a 4-tuple whose loss and epoch
\* are those of the snapshot, whatever was passed as loss and epoch.
C5_OptimizerBranchOverride ==
    (/\ call.op = "load_model" /\ call.err = "none"
     /\ call.args.opt_fn # None /\ call.args.loss_fn # None) =>
        LET info == FileAt(fs, call.args.checkpoint_path).info
        IN  /\ call.ret.kind = "tuple"
            /\ call.ret.loss_fn = info.loss
            /\ call.ret.epoch = info.epoch

\* the loss and the epoch passed differ from the snapshot's
C5_Witness ==
    /\ call.op = "load_model" /\ call.err = "none"
    /\ call.args.opt_fn # None /\ call.args.loss_fn # None /\ call.args.epoch # None
    /\ call.args.loss_fn.v # FileAt(fs, call.args.checkpoint_path).info.loss
    /\ call.args.epoch.v # FileAt(fs, call.args.checkpoint_path).info.epoch
    /\ call.ret.kind = "tuple"

\* C6: a load_model call that returns has restored the model from the snapshot;
\* it has restored the optimizer (and returns the 4-tuple) exactly when both the
\* optimizer and the loss were passed, and otherwise leaves the optimizer as it
\* was and returns the model only.
C6_OptimizerIffBoth ==
    (call.op = "load_model" /\ call.err = "none") =>
        LET info == FileAt(fs, call.args.checkpoint_path).info
            sd == info.model_state_dict
        IN  /\ \A k \in Keys :
                  call.model.params[k] =
                     sd[IF call.args.model.wrapped THEN "module." \o k ELSE k]
            /\ IF call.args.opt_fn # None /\ call.args.loss_fn # None
               THEN /\ call.optim = Some(info.optimizer_state_dict)
                    /\ call.ret.kind = "tuple"
                    /\ call.ret.opt_fn = call.optim
                    /\ call.ret.model = call.model
               ELSE /\ call.optim = call.args.opt_fn
                    /\ call.ret = [kind |-> "model", model |-> call.model]

\* an optimizer was passed without a loss, and its state differs from the
\* snapshot's
C6_Witness ==
    /\ call.op = "load_model" /\ call.err = "none"
    /\ call.args.opt_fn # None /\ call.args.loss_fn = None
    /\ call.args.opt_fn.v #
          FileAt(fs, call.args.checkpoint_path).info.optimizer_state_dict
    /\ call.optim = call.args.opt_fn
    /\ call.ret.kind = "model"

(***************************************************************************)
(* Properties of concurrent save_model calls.                              *)
(***************************************************************************)
\* C8: whatever the interleaving of the exists checks and the mkdir steps of two
\* concurrent calls, neither call raises because of the race, and both
\* subfolders exist when a call proceeds to write.
C8_BenignFolderRace ==
    \A p \in Procs :
        /\ procs[p].err # "FileExistsError"
        /\ procs[p].pc \in {"open_last", "write_last", "open_best", "write_best", "done"}
              => fs.last_check_path /\ fs.best_check_path

====
